---- MODULE Spec2Model ----
(***************************************************************************)
(* A model of the feedback worker (src/src/index.ts): the fetch handler's  *)
(* ingest pipeline (validate, persist, classify, count, summary, examples) *)
(* run by several requests whose awaits interleave on one key-value store, *)
(* and the two query views (/stats, /insights) that scan that store.       *)
(*                                                                         *)
(* Strings are sequences of tokens.  A count is a sequence of characters   *)
(* ("1","2" for "12"), so String(n) and parseInt are computed, not assumed.*)
(* A classifier or merge response is a sequence of tokens: braces, prose   *)
(* and "key=value" members.  An example array is stored as its JSON text:  *)
(* the bracket tokens around the texts.                                    *)
(***************************************************************************)
EXTENDS Integers, Sequences, FiniteSets, TLC

(* ------------------------------ bounds --------------------------------- *)

\* Number of request slots whose handlers may be in flight at the same time.
NReq == 2

\* Total number of requests started in one behaviour.
MaxSubmissions == 4

\* Total number of requests started when they run one at a time.
MaxSerial == 3

\* Total number of requests started when every answer of the classifier is tried.
MaxAnswers == 2

\* Total number of requests started on a store that already holds values.
MaxStored == 1

\* Total number of ingest requests started between the views.
MaxViewed == 1

\* Total number of requests started when two of them race on a stored count.
MaxRacing == 2

\* Total number of requests started when they interleave and calls may fail.
MaxFaulty == 2

(* ---------------------------- value domains ---------------------------- *)

Req == 1..NReq

\* The query parameter "text": absent (null), empty, or a feedback text.
NoText == "<null>"
EmptyText == ""
\* The feedback texts, in order of submission: every submission brings a new one.
FeedbackTexts == <<"t1", "t2", "t3", "t4", "t5", "t6", "t7", "t8">>
Texts == {FeedbackTexts[i] : i \in 1..Len(FeedbackTexts)}
TextInputs(n) == {NoText, EmptyText, FeedbackTexts[n + 1]}
IsBlank(text) == text = NoText \/ text = EmptyText

\* What KV get returns for an absent key.
Null == <<"<null>">>

DefaultSentiment == <<"unknown">>
DefaultCategory == <<"unknown">>
DefaultSummary == <<"N/A">>

\* What the classifier may name.
AiSentiment == <<"positive">>
AiCategory == <<"billing">>
AiSummary == <<"s1">>
AiMerged == <<"m1">>

Categories == {DefaultCategory, AiCategory}

(* ------------------------------ KV keys -------------------------------- *)

CountPrefix == "category:"
SumPrefix == "category_summary:"
ExPrefix == "category_examples:"

kvKey(category) == <<CountPrefix, category>>
sumKey(category) == <<SumPrefix, category>>
exKey(category) == <<ExPrefix, category>>

\* env.FEEDBACK_CACHE.get: the stored string, or null for an absent key.
KvGet(store, key) == IF key \in DOMAIN store THEN store[key] ELSE Null

\* env.FEEDBACK_CACHE.put: creates or overwrites the key.
KvPut(store, key, value) ==
    [k \in (DOMAIN store) \cup {key} |-> IF k = key THEN value ELSE store[k]]

\* A store with a value put under a key, or left alone for an absent value.
Stored(store, key, value) == IF value = Null THEN store ELSE KvPut(store, key, value)

(* --------------------------- String / parseInt ------------------------- *)

Digits == <<"0", "1", "2", "3", "4", "5", "6", "7", "8", "9">>

IsDigit(ch) == \E i \in 1..10 : Digits[i] = ch

DigitVal(ch) == (CHOOSE i \in 1..10 : Digits[i] = ch) - 1

RECURSIVE NatToString(_)
NatToString(n) ==
    IF n < 10 THEN <<Digits[n + 1]>>
    ELSE NatToString(n \div 10) \o <<Digits[(n % 10) + 1]>>

\* String(occurrences)
StringOf(n) == IF n < 0 THEN <<"-">> \o NatToString(0 - n) ELSE NatToString(n)

RECURSIVE SkipSpaces(_)
SkipSpaces(s) ==
    IF s # << >> /\ Head(s) = " " THEN SkipSpaces(Tail(s)) ELSE s

RECURSIVE DigitPrefix(_)
DigitPrefix(s) ==
    IF s # << >> /\ IsDigit(Head(s)) THEN <<Head(s)>> \o DigitPrefix(Tail(s))
    ELSE << >>

RECURSIVE DigitsValue(_)
DigitsValue(ds) ==
    IF ds = << >> THEN 0
    ELSE 10 * DigitsValue(SubSeq(ds, 1, Len(ds) - 1)) + DigitVal(ds[Len(ds)])

\* parseInt(s, 10): leading blanks, an optional sign, then the longest run of
\* digits; NaN (isNaN, with n = 0 as a placeholder) when there is no digit.
parseInt(s) ==
    LET t == SkipSpaces(s)
        neg == t # << >> /\ Head(t) = "-"
        signed == t # << >> /\ Head(t) \in {"-", "+"}
        ds == DigitPrefix(IF signed THEN Tail(t) ELSE t)
    IN  IF ds = << >> THEN [isNaN |-> TRUE, n |-> 0]
        ELSE [isNaN |-> FALSE,
              n |-> IF neg THEN 0 - DigitsValue(ds) ELSE DigitsValue(ds)]

(* ------------------------------- JSON ---------------------------------- *)

Undefined == <<"<undefined>">>

\* The object members a response may carry: token, key and value.
Members ==
    { [tok |-> "sentiment=positive", key |-> "sentiment", val |-> AiSentiment],
      [tok |-> "category=billing", key |-> "category", val |-> AiCategory],
      [tok |-> "summary=s1", key |-> "summary", val |-> AiSummary],
      [tok |-> "merged_summary=m1", key |-> "merged_summary", val |-> AiMerged] }

MemberTokens == {m.tok : m \in Members}

\* JSON.parse of a token sequence: an object "{" members "}", an array
\* "[" items "]", the literal null, or a number; anything else throws.
JsonParse(toks) ==
    LET n == Len(toks)
        inner == IF n >= 2 THEN SubSeq(toks, 2, n - 1) ELSE << >>
    IN  IF n >= 2 /\ toks[1] = "{" /\ toks[n] = "}"
           /\ \A i \in 1..Len(inner) : inner[i] \in MemberTokens
        THEN [ok |-> TRUE, kind |-> "object", items |-> inner]
        ELSE IF n >= 2 /\ toks[1] = "[" /\ toks[n] = "]"
                /\ \A i \in 1..Len(inner) : inner[i] \notin {"[", "]", "{", "}"}
        THEN [ok |-> TRUE, kind |-> "array", items |-> inner]
        ELSE IF toks = <<"null">>
        THEN [ok |-> TRUE, kind |-> "null", items |-> << >>]
        ELSE IF n >= 1 /\ \A i \in 1..n : IsDigit(toks[i])
        THEN [ok |-> TRUE, kind |-> "number", items |-> << >>]
        ELSE [ok |-> FALSE, kind |-> "throws", items |-> << >>]

\* JSON.stringify of an array of strings.
JsonStringify(arr) == <<"[">> \o arr \o <<"]">>

\* parsed.<key> of a parsed object: the member's value, or undefined.
Field(items, key) ==
    IF \E i \in 1..Len(items) : \E m \in Members : m.tok = items[i] /\ m.key = key
    THEN LET i == CHOOSE j \in 1..Len(items) :
                     \E m \in Members : m.tok = items[j] /\ m.key = key
         IN  (CHOOSE m \in Members : m.tok = items[i]).val
    ELSE Undefined

\* a ?? b
Coalesce(a, b) == IF a = Undefined \/ a = Null THEN b ELSE a

\* raw.indexOf(ch) and raw.lastIndexOf(ch), 0-based, -1 when absent.
indexOf(raw, ch) ==
    IF \E i \in 1..Len(raw) : raw[i] = ch
    THEN (CHOOSE i \in 1..Len(raw) :
              raw[i] = ch /\ \A j \in 1..(i - 1) : raw[j] # ch) - 1
    ELSE -1

lastIndexOf(raw, ch) ==
    IF \E i \in 1..Len(raw) : raw[i] = ch
    THEN (CHOOSE i \in 1..Len(raw) :
              raw[i] = ch /\ \A j \in (i + 1)..Len(raw) : raw[j] # ch) - 1
    ELSE -1

\* raw.slice(from, to): a negative index counts from the end; empty when the
\* end is not after the start.
slice(raw, from, to) ==
    LET n == Len(raw)
        norm(i) == IF i < 0 THEN (IF n + i < 0 THEN 0 ELSE n + i)
                   ELSE (IF i > n THEN n ELSE i)
    IN  IF norm(to) <= norm(from) THEN << >>
        ELSE SubSeq(raw, norm(from) + 1, norm(to))

\* s.trim()
RECURSIVE trim(_)
trim(s) ==
    IF s # << >> /\ Head(s) = " " THEN trim(Tail(s))
    ELSE IF s # << >> /\ s[Len(s)] = " " THEN trim(SubSeq(s, 1, Len(s) - 1))
    ELSE s

(* --------------------------- classification ---------------------------- *)

\* What env.AI.run may do: throw, or resolve to an object that has a string
\* "response" or none (response = Null), and a merged_summary member or none.
AiResult(throws, response, merged) ==
    [throws |-> throws, response |-> response, merged_summary |-> merged]

Fields == {"sentiment=positive", "category=billing", "summary=s1"}

\* The member lists of a classifier's JSON object: every subset of the three
\* keys, in the order sentiment, category, summary.
FieldLists ==
    { (IF "sentiment=positive" \in S THEN <<"sentiment=positive">> ELSE << >>)
      \o (IF "category=billing" \in S THEN <<"category=billing">> ELSE << >>)
      \o (IF "summary=s1" \in S THEN <<"summary=s1">> ELSE << >>)
      : S \in SUBSET Fields }

Wrappings == {<< >>, <<"prose">>}

\* Response texts of the classifier: JSON objects (bare or wrapped in prose),
\* malformed JSON, unbalanced or reversed braces, prose only, the empty text.
ClassifierTexts ==
    { pre \o <<"{">> \o fl \o <<"}">> \o post :
          pre \in Wrappings, fl \in FieldLists, post \in Wrappings }
    \cup { <<"{", "prose", "}">>, <<"{", "category=billing">>,
           <<"category=billing", "}">>, <<"}", "category=billing", "{">>,
           <<"prose">>, << >> }

ClassifierResults ==
    { AiResult(TRUE, Null, Undefined), AiResult(FALSE, Null, Undefined) }
    \cup { AiResult(FALSE, t, Undefined) : t \in ClassifierTexts }

\* Mutant: the default summary is given the default of the other two fields.
Defaults_UnknownSummary ==
    [sentiment |-> DefaultSentiment, category |-> DefaultCategory,
     summary |-> DefaultSentiment]

\* Lines 96-99: the fields when the classifier gives nothing.
Defaults ==
    [sentiment |-> DefaultSentiment, category |-> DefaultCategory,
     summary |-> DefaultSummary]

\* Lines 96-129: the three fields after the classification step.
Classification(aiResult) ==
    IF aiResult.throws THEN Defaults
    ELSE LET raw == aiResult.response
         IN  IF raw = Null \/ raw = << >> THEN Defaults
             ELSE LET firstBrace == indexOf(raw, "{")
                      lastBrace == lastIndexOf(raw, "}")
                  IN  IF firstBrace # -1 /\ lastBrace # -1
                      THEN LET parsed == JsonParse(slice(raw, firstBrace, lastBrace + 1))
                           IN  IF ~parsed.ok THEN Defaults
                               ELSE [sentiment |->
                                         Coalesce(Field(parsed.items, "sentiment"),
                                                  DefaultSentiment),
                                     category |->
                                         Coalesce(Field(parsed.items, "category"),
                                                  DefaultCategory),
                                     summary |->
                                         Coalesce(Field(parsed.items, "summary"),
                                                  DefaultSummary)]
                      ELSE Defaults

(* ------------------------------ count step ----------------------------- *)

\* Mutant: the increment is added twice.
NextCount_CountsTwice(existing) ==
    IF existing = Null THEN 1
    ELSE LET n == parseInt(existing)
         IN  IF n.isNaN THEN 1 ELSE n.n + 2

\* Mutant: the count is stepped the wrong way.
NextCount_Decrements(existing) ==
    IF existing = Null THEN 1
    ELSE LET n == parseInt(existing)
         IN  IF n.isNaN THEN 1 ELSE n.n - 1

\* Lines 136-141: the new count from what the get returned.
NextCount(existing) ==
    IF existing = Null THEN 1
    ELSE LET n == parseInt(existing)
         IN  IF n.isNaN THEN 1 ELSE n.n + 1

\* Lines 30 and 50: the count a view reads, 0 if absent or unparsable.
ReadCount(val) ==
    IF val = Null THEN 0
    ELSE LET n == parseInt(val) IN IF n.isNaN THEN 0 ELSE n.n

(* ----------------------------- summary merge --------------------------- *)

MergeTexts ==
    { <<"{", "merged_summary=m1", "}">>, <<" ", "{", "merged_summary=m1", "}", " ">>,
      <<"{", "}">>, <<"{", "summary=s1", "}">>,
      <<"prose", "{", "merged_summary=m1", "}">>, <<"{", "merged_summary=m1">>,
      <<"prose">>, <<"null">>, << >>, <<" ">> }

MergeResults ==
    { AiResult(TRUE, Null, Undefined), AiResult(FALSE, Null, Undefined),
      AiResult(FALSE, Null, AiMerged) }
    \cup { AiResult(FALSE, t, Undefined) : t \in MergeTexts }

\* The merge branch is present in two forms: the inline parse of lines
\* 168-186 and the helper-based parse of lines 187-195.
MergeVariants == {"inline", "helper"}

\* Lines 158-199 after the merge call resolved: whether sumKey is written,
\* and the merged value (category_summary before the put).  Without a write
\* the step ends with category_summary = existingSummary.
MergeOutcome(aiRes, existingSummary, variant) ==
    LET textOut == IF aiRes.response # Null THEN trim(aiRes.response) ELSE << >>
        parsed == JsonParse(textOut)
        fromObject == Coalesce(aiRes.merged_summary, existingSummary)
    IN  IF textOut = << >>
        THEN [write |-> TRUE, merged |-> fromObject]
        ELSE IF parsed.ok /\ parsed.kind = "object"
        THEN [write |-> TRUE,
              merged |-> Coalesce(Field(parsed.items, "merged_summary"),
                                  existingSummary)]
        ELSE IF parsed.ok /\ parsed.kind # "null"
        THEN \* a number or an array has no merged_summary
             [write |-> TRUE, merged |-> existingSummary]
        ELSE \* JSON.parse threw, or gave null
             IF variant = "inline"
             THEN [write |-> FALSE, merged |-> existingSummary]
             ELSE [write |-> TRUE, merged |-> fromObject]

(* ------------------------------ examples -------------------------------- *)

ExampleCap == 3

\* Mutant: the capacity test is <= instead of <.
NextExamples_AppendAtCap(raw, text, idx) ==
    IF raw = Null THEN <<text>>
    ELSE LET parsed == JsonParse(raw)
         IN  IF ~parsed.ok THEN <<text>>
             ELSE IF parsed.kind # "array" THEN <<text>>
             ELSE IF Len(parsed.items) <= ExampleCap THEN Append(parsed.items, text)
             ELSE [parsed.items EXCEPT ![idx + 1] = text]

\* Mutant: under capacity the new text starts the array over.
NextExamples_PushReplaces(raw, text, idx) ==
    IF raw = Null THEN <<text>>
    ELSE LET parsed == JsonParse(raw)
         IN  IF ~parsed.ok THEN <<text>>
             ELSE IF parsed.kind # "array" THEN <<text>>
             ELSE IF Len(parsed.items) < ExampleCap THEN <<text>>
             ELSE [parsed.items EXCEPT ![idx + 1] = text]

\* Mutant: at capacity the oldest entry is dropped and the text appended.
NextExamples_ShiftsAtCap(raw, text, idx) ==
    IF raw = Null THEN <<text>>
    ELSE LET parsed == JsonParse(raw)
         IN  IF ~parsed.ok THEN <<text>>
             ELSE IF parsed.kind # "array" THEN <<text>>
             ELSE IF Len(parsed.items) < ExampleCap THEN Append(parsed.items, text)
             ELSE Tail(parsed.items) \o <<text>>

\* Lines 210-228: the new example array from what the get returned; idx is
\* Math.floor(Math.random() * 3).
NextExamples(raw, text, idx) ==
    IF raw = Null THEN <<text>>
    ELSE LET parsed == JsonParse(raw)
         IN  IF ~parsed.ok THEN <<text>>
             ELSE IF parsed.kind # "array" THEN <<text>>
             ELSE IF Len(parsed.items) < ExampleCap THEN Append(parsed.items, text)
             ELSE [parsed.items EXCEPT ![idx + 1] = text]

(* ------------------------------- state --------------------------------- *)

VARIABLES
    req,         \* per request slot: the handler's position and locals
    kv,          \* env.FEEDBACK_CACHE: key -> stored string
    db,          \* env.feedback_db: the rows of table feedback, in id order
    nsub,        \* number of requests started so far
    classified,  \* history: per category, how many requests were classified into it
    filed,       \* history: per category, the texts classified into it
    overlapped,  \* history: two requests have been in flight at the same time
    view,        \* the /stats or /insights request: its position and locals
    seed         \* history: the content of the key-value store at the start

vars == <<req, kv, db, nsub, classified, filed, overlapped, view, seed>>

\* One attempted call on a binding, as a request's history: the call, what
\* it was made on, whether it succeeded, and what env.AI.run did (NoAnswer
\* for the calls on the database and the key-value store).
NoAnswer == [throws |-> FALSE, response |-> Null, merged_summary |-> Undefined]

Op(op, target, ok, answer) ==
    [op |-> op, target |-> target, ok |-> ok, answer |-> answer]

\* Mutant: the fallback leaves category_summary as this submission's summary.
MergeFallback_KeepsNew(existingSummary, summary) == summary

\* Lines 185 and 198: what category_summary falls back to when the merge fails.
MergeFallback(existingSummary, summary) == existingSummary

\* The locals of fetch before the handler runs.
Fresh ==
    [pc |-> "idle", text |-> NoText, status |-> 0,
     sentiment |-> DefaultSentiment, category |-> DefaultCategory,
     summary |-> DefaultSummary, occurrences |-> 0,
     existingSummary |-> Null, category_summary |-> DefaultSummary,
     examples |-> << >>, ops |-> << >>]

\* The locals of a view request before the handler runs.
NoView ==
    [pc |-> "idle", path |-> "", wantsHtml |-> FALSE, keys |-> << >>,
     item |-> << >>, items |-> << >>, status |-> 0, body |-> << >>,
     ops |-> << >>]

Init ==
    /\ req = [r \in Req |-> Fresh]
    /\ kv = << >>
    /\ db = << >>
    /\ nsub = 0
    /\ classified = [c \in Categories |-> 0]
    /\ filed = [c \in Categories |-> {}]
    /\ overlapped = FALSE
    /\ view = NoView
    /\ seed = kv

\* What the classifier answers when it works: prose around a full object.
PlainClassifier ==
    { AiResult(TRUE, Null, Undefined), AiResult(FALSE, <<"prose">>, Undefined),
      AiResult(FALSE, <<"prose", "{", "sentiment=positive", "category=billing",
                        "summary=s1", "}">>, Undefined) }

PlainMerge ==
    { AiResult(TRUE, Null, Undefined),
      AiResult(FALSE, <<"{", "merged_summary=m1", "}">>, Undefined) }

\* An environment of the worker: how many requests arrive, whether a request
\* may come without a text, whether calls on the database and the key-value
\* store may fail, and what the classifier and the merge service may answer
\* (a throwing answer needs faulty).
EnvConcurrent ==
    [submissions |-> MaxSubmissions, blank |-> FALSE, faulty |-> FALSE,
     classifier |-> PlainClassifier, merge |-> PlainMerge]

EnvSerial ==
    [submissions |-> MaxSerial, blank |-> TRUE, faulty |-> TRUE,
     classifier |-> PlainClassifier, merge |-> MergeResults]

EnvAnswers ==
    [submissions |-> MaxAnswers, blank |-> FALSE, faulty |-> TRUE,
     classifier |-> ClassifierResults, merge |-> PlainMerge]

EnvStored ==
    [submissions |-> MaxStored, blank |-> TRUE, faulty |-> FALSE,
     classifier |-> PlainClassifier, merge |-> PlainMerge]

\* Whether the next database or key-value call succeeds.
Outcomes(e) == IF e.faulty THEN BOOLEAN ELSE {TRUE}

\* What the next env.AI.run does, among the answers the environment has.
AiOutcomes(e, results) == {a \in results : e.faulty \/ ~a.throws}

\* Mutant: only an absent text is rejected, an empty one is accepted.
Start_NullOnly(r, e) ==
    /\ req[r].pc \in {"idle", "done"}
    /\ nsub < e.submissions
    /\ \E text \in {t \in TextInputs(nsub) : e.blank \/ ~IsBlank(t)} :
          req' = [req EXCEPT ![r] =
                    IF text = NoText
                    THEN [Fresh EXCEPT !.pc = "done", !.text = text, !.status = 400]
                    ELSE [Fresh EXCEPT !.pc = "persist", !.text = text]]
    /\ nsub' = nsub + 1
    /\ overlapped' = (overlapped \/ \E q \in Req \ {r} : req'[q].pc \notin {"idle", "done"}
                                                    /\ req'[r].pc \notin {"idle", "done"})
    /\ UNCHANGED <<kv, db, classified, filed, view, seed>>

\* Lines 74-80: a request arrives on the ingest path; a missing or empty text
\* is answered 400.
Start(r, e) ==
    /\ req[r].pc \in {"idle", "done"}
    /\ nsub < e.submissions
    /\ \E text \in {t \in TextInputs(nsub) : e.blank \/ ~IsBlank(t)} :
          req' = [req EXCEPT ![r] =
                    IF IsBlank(text)
                    THEN [Fresh EXCEPT !.pc = "done", !.text = text, !.status = 400]
                    ELSE [Fresh EXCEPT !.pc = "persist", !.text = text]]
    /\ nsub' = nsub + 1
    /\ overlapped' = (overlapped \/ \E q \in Req \ {r} : req'[q].pc \notin {"idle", "done"}
                                                    /\ req'[r].pc \notin {"idle", "done"})
    /\ UNCHANGED <<kv, db, classified, filed, view, seed>>

\* Mutant: a failed insert is swallowed and the pipeline goes on.
Persist_Swallows(r, e) ==
    /\ req[r].pc = "persist"
    /\ \E ok \in Outcomes(e) :
          /\ req' = [req EXCEPT
                       ![r].ops = Append(@, Op("db.insert", "feedback", ok, NoAnswer)),
                       ![r].pc = "classify"]
          /\ db' = IF ok THEN Append(db, req[r].text) ELSE db
    /\ UNCHANGED <<kv, nsub, classified, filed, overlapped, view, seed>>

\* Lines 82-94 and 235-237: create the table and insert the text; a failure of
\* either statement is answered 500.
Persist(r, e) ==
    /\ req[r].pc = "persist"
    /\ \E ok \in Outcomes(e) :
          /\ req' = [req EXCEPT
                       ![r].ops = Append(@, Op("db.insert", "feedback", ok, NoAnswer)),
                       ![r].pc = IF ok THEN "classify" ELSE "done",
                       ![r].status = IF ok THEN 0 ELSE 500]
          /\ db' = IF ok THEN Append(db, req[r].text) ELSE db
    /\ UNCHANGED <<kv, nsub, classified, filed, overlapped, view, seed>>

\* Lines 96-129: call the classifier and parse its answer.
Classify(r, e) ==
    /\ req[r].pc = "classify"
    /\ \E aiResult \in AiOutcomes(e, e.classifier) :
          LET c == Classification(aiResult)
          IN  /\ req' = [req EXCEPT
                           ![r].ops = Append(@, Op("ai.run", "classify", ~aiResult.throws,
                                              aiResult)),
                           ![r].sentiment = c.sentiment,
                           ![r].category = c.category,
                           ![r].summary = c.summary,
                           ![r].category_summary = c.summary,
                           ![r].pc = "countGet"]
              /\ classified' = [classified EXCEPT ![c.category] = @ + 1]
              /\ filed' = [filed EXCEPT ![c.category] = @ \cup {req[r].text}]
    /\ UNCHANGED <<kv, db, nsub, overlapped, view, seed>>

\* Mutant: after a failed get the step still writes the count it has, 0.
CountGet_StillWrites(r, e) ==
    /\ req[r].pc = "countGet"
    /\ \E ok \in Outcomes(e) :
          /\ req' = [req EXCEPT
                       ![r].ops = Append(@, Op("get", CountPrefix, ok, NoAnswer)),
                       ![r].occurrences =
                           IF ok THEN NextCount(KvGet(kv, kvKey(req[r].category)))
                           ELSE 0,
                       ![r].pc = "countPut"]
    /\ UNCHANGED <<kv, db, nsub, classified, filed, overlapped, view, seed>>

\* Lines 132-141: read the count key and compute the new count; a failed get
\* leaves occurrences 0 and ends the step.
CountGet(r, e) ==
    /\ req[r].pc = "countGet"
    /\ \E ok \in Outcomes(e) :
          /\ req' = [req EXCEPT
                       ![r].ops = Append(@, Op("get", CountPrefix, ok, NoAnswer)),
                       ![r].occurrences =
                           IF ok THEN NextCount(KvGet(kv, kvKey(req[r].category)))
                           ELSE 0,
                       ![r].pc = IF ok THEN "countPut" ELSE "sumGet"]
    /\ UNCHANGED <<kv, db, nsub, classified, filed, overlapped, view, seed>>

\* Lines 142-145: write the new count; a failed put is swallowed.
CountPut(r, e) ==
    /\ req[r].pc = "countPut"
    /\ \E ok \in Outcomes(e) :
          /\ req' = [req EXCEPT
                       ![r].ops = Append(@, Op("put", CountPrefix, ok, NoAnswer)),
                       ![r].pc = "sumGet"]
          /\ kv' = IF ok
                   THEN KvPut(kv, kvKey(req[r].category), StringOf(req[r].occurrences))
                   ELSE kv
    /\ UNCHANGED <<db, nsub, classified, filed, overlapped, view, seed>>

\* Mutant: a failed get of the summary ends the aggregation and the response
\* is sent without the examples step.
SumGet_EndsOnFailure(r, e) ==
    /\ req[r].pc = "sumGet"
    /\ \E ok \in Outcomes(e) :
          LET existing == KvGet(kv, sumKey(req[r].category))
          IN  /\ req' = [req EXCEPT
                           ![r].ops = Append(@, Op("get", SumPrefix, ok, NoAnswer)),
                           ![r].existingSummary = IF ok THEN existing ELSE Null,
                           ![r].status = IF ok THEN 0 ELSE 200,
                           ![r].pc = IF ~ok THEN "done"
                                     ELSE IF existing = Null THEN "sumPutNew"
                                     ELSE "sumMerge"]
    /\ UNCHANGED <<kv, db, nsub, classified, filed, overlapped, view, seed>>

\* Lines 148-152 and 201-203: read the summary key.
SumGet(r, e) ==
    /\ req[r].pc = "sumGet"
    /\ \E ok \in Outcomes(e) :
          LET existing == KvGet(kv, sumKey(req[r].category))
          IN  /\ req' = [req EXCEPT
                           ![r].ops = Append(@, Op("get", SumPrefix, ok, NoAnswer)),
                           ![r].existingSummary = IF ok THEN existing ELSE Null,
                           ![r].pc = IF ~ok THEN "exGet"
                                     ELSE IF existing = Null THEN "sumPutNew"
                                     ELSE "sumMerge"]
    /\ UNCHANGED <<kv, db, nsub, classified, filed, overlapped, view, seed>>

\* Lines 152-155: no summary stored yet, store this submission's summary.
SumPutNew(r, e) ==
    /\ req[r].pc = "sumPutNew"
    /\ \E ok \in Outcomes(e) :
          /\ req' = [req EXCEPT
                       ![r].ops = Append(@, Op("put", SumPrefix, ok, NoAnswer)),
                       ![r].category_summary = req[r].summary,
                       ![r].pc = "exGet"]
          /\ kv' = IF ok THEN KvPut(kv, sumKey(req[r].category), req[r].summary)
                   ELSE kv
    /\ UNCHANGED <<db, nsub, classified, filed, overlapped, view, seed>>

\* Lines 156-175 and 187-199: call the merge service and parse its answer.
SumMerge(r, e) ==
    /\ req[r].pc = "sumMerge"
    /\ \E aiRes \in AiOutcomes(e, e.merge), variant \in MergeVariants :
          LET out == MergeOutcome(aiRes, req[r].existingSummary, variant)
              write == ~aiRes.throws /\ out.write
          IN  req' = [req EXCEPT
                        ![r].ops = Append(@, Op("ai.run", "merge", ~aiRes.throws, aiRes)),
                        ![r].category_summary =
                            IF write THEN out.merged
                            ELSE MergeFallback(req[r].existingSummary, req[r].summary),
                        ![r].pc = IF write THEN "sumPutMerged" ELSE "exGet"]
    /\ UNCHANGED <<kv, db, nsub, classified, filed, overlapped, view, seed>>

\* Lines 176-186 and 195-199: store the merged summary; a failed put falls
\* back to the existing summary.
SumPutMerged(r, e) ==
    /\ req[r].pc = "sumPutMerged"
    /\ \E ok \in Outcomes(e) :
          /\ req' = [req EXCEPT
                       ![r].ops = Append(@, Op("put", SumPrefix, ok, NoAnswer)),
                       ![r].category_summary =
                           IF ok THEN @
                           ELSE MergeFallback(req[r].existingSummary, req[r].summary),
                       ![r].pc = "exGet"]
          /\ kv' = IF ok
                   THEN KvPut(kv, sumKey(req[r].category), req[r].category_summary)
                   ELSE kv
    /\ UNCHANGED <<db, nsub, classified, filed, overlapped, view, seed>>

\* Mutant: a failed get of the examples key is not caught by the step and
\* reaches the handler of line 235.
ExGet_Uncaught(r, e) ==
    /\ req[r].pc = "exGet"
    /\ \E ok \in Outcomes(e), idx \in 0..(ExampleCap - 1) :
          /\ req' = [req EXCEPT
                       ![r].ops = Append(@, Op("get", ExPrefix, ok, NoAnswer)),
                       ![r].examples =
                           IF ok
                           THEN NextExamples(KvGet(kv, exKey(req[r].category)),
                                             req[r].text, idx)
                           ELSE << >>,
                       ![r].existingSummary = Null,
                       ![r].status = IF ok THEN 0 ELSE 500,
                       ![r].pc = IF ok THEN "exPut" ELSE "done"]
    /\ UNCHANGED <<kv, db, nsub, classified, filed, overlapped, view, seed>>

\* Lines 206-228 and 230-234: read the examples key and compute the new
\* array; a failed get leaves examples empty and the response is sent.
\* existingSummary goes out of scope here.
ExGet(r, e) ==
    /\ req[r].pc = "exGet"
    /\ \E ok \in Outcomes(e), idx \in 0..(ExampleCap - 1) :
          /\ req' = [req EXCEPT
                       ![r].ops = Append(@, Op("get", ExPrefix, ok, NoAnswer)),
                       ![r].examples =
                           IF ok
                           THEN NextExamples(KvGet(kv, exKey(req[r].category)),
                                             req[r].text, idx)
                           ELSE << >>,
                       ![r].existingSummary = Null,
                       ![r].status = IF ok THEN 0 ELSE 200,
                       ![r].pc = IF ok THEN "exPut" ELSE "done"]
    /\ UNCHANGED <<kv, db, nsub, classified, filed, overlapped, view, seed>>

\* Mutant: the response is sent without storing the array.
ExPut_NotStored(r, e) ==
    /\ req[r].pc = "exPut"
    /\ \E ok \in Outcomes(e) :
          /\ req' = [req EXCEPT
                       ![r].ops = Append(@, Op("put", ExPrefix, ok, NoAnswer)),
                       ![r].status = 200,
                       ![r].pc = "done"]
          /\ kv' = kv
    /\ UNCHANGED <<db, nsub, classified, filed, overlapped, view, seed>>

\* Mutant: the array is stored under the examples key of the default category.
ExPut_UnderDefault(r, e) ==
    /\ req[r].pc = "exPut"
    /\ \E ok \in Outcomes(e) :
          /\ req' = [req EXCEPT
                       ![r].ops = Append(@, Op("put", ExPrefix, ok, NoAnswer)),
                       ![r].status = 200,
                       ![r].pc = "done"]
          /\ kv' = IF ok
                   THEN KvPut(kv, exKey(DefaultCategory), JsonStringify(req[r].examples))
                   ELSE kv
    /\ UNCHANGED <<db, nsub, classified, filed, overlapped, view, seed>>

\* Lines 229-234: store the array and send the response.
ExPut(r, e) ==
    /\ req[r].pc = "exPut"
    /\ \E ok \in Outcomes(e) :
          /\ req' = [req EXCEPT
                       ![r].ops = Append(@, Op("put", ExPrefix, ok, NoAnswer)),
                       ![r].status = 200,
                       ![r].pc = "done"]
          /\ kv' = IF ok
                   THEN KvPut(kv, exKey(req[r].category), JsonStringify(req[r].examples))
                   ELSE kv
    /\ UNCHANGED <<db, nsub, classified, filed, overlapped, view, seed>>

Step(r, e) ==
    \/ Start(r, e)
    \/ Persist(r, e)
    \/ Classify(r, e)
    \/ CountGet(r, e)
    \/ CountPut(r, e)
    \/ SumGet(r, e)
    \/ SumPutNew(r, e)
    \/ SumMerge(r, e)
    \/ SumPutMerged(r, e)
    \/ ExGet(r, e)
    \/ ExPut(r, e)

\* Any request may take its next step: the awaits of different requests
\* interleave freely.
Next == \E r \in Req : Step(r, EnvConcurrent)

Spec == Init /\ [][Next]_vars

\* One request at a time: the handler runs in the first slot only.
NextSerial == Step(1, EnvSerial)

SpecSerial == Init /\ [][NextSerial]_vars

NextAnswers == Step(1, EnvAnswers)

SpecAnswers == Init /\ [][NextAnswers]_vars

\* Values found under the count key of a category: counts the worker wrote,
\* and strings another writer may have left there.
StoredCounts ==
    { <<"0">>, <<"1">>, <<"2">>, <<"9">>, <<"1", "9">>, <<"-", "1">>, <<"-", "5">>,
      <<"+", "4">>, <<" ", "7">>, <<"3", "x">>, <<"x">>, <<"-">>, << >> }

StoredSummaries == { <<"old">> }

StoredExamples ==
    { <<"[", "a", "]">>, <<"[", "a", "b", "]">>, <<"[", "a", "b", "c", "]">>,
      <<"[", "t1", "b", "c", "]">>, <<"[", "a", "b", "c", "d", "]">>,
      <<"[", "]">>, <<"[", "a">>, <<"null">>, <<"7">> }

\* A store that holds, for the category the classifier names, any of the
\* stored values under any of its three keys.
InitStored ==
    /\ req = [r \in Req |-> Fresh]
    /\ \E count \in StoredCounts \cup {Null},
          sum \in StoredSummaries \cup {Null},
          ex \in StoredExamples \cup {Null} :
          LET s0 == << >>
              s1 == IF count = Null THEN s0 ELSE KvPut(s0, kvKey(AiCategory), count)
              s2 == IF sum = Null THEN s1 ELSE KvPut(s1, sumKey(AiCategory), sum)
          IN  kv = IF ex = Null THEN s2 ELSE KvPut(s2, exKey(AiCategory), ex)
    /\ db = << >>
    /\ nsub = 0
    /\ classified = [c \in Categories |-> 0]
    /\ filed = [c \in Categories |-> {}]
    /\ overlapped = FALSE
    /\ view = NoView
    /\ seed = kv

NextStored == Step(1, EnvStored)

SpecStored == InitStored /\ [][NextStored]_vars

\* Two requests at a time on a store that holds a count for the category the
\* classifier names: no call fails.
EnvRace ==
    [submissions |-> MaxRacing, blank |-> FALSE, faulty |-> FALSE,
     classifier |-> PlainClassifier, merge |-> PlainMerge]

InitRace ==
    /\ req = [r \in Req |-> Fresh]
    /\ kv \in {Stored(<< >>, kvKey(AiCategory), count) : count \in StoredCounts \cup {Null}}
    /\ db = << >>
    /\ nsub = 0
    /\ classified = [c \in Categories |-> 0]
    /\ filed = [c \in Categories |-> {}]
    /\ overlapped = FALSE
    /\ view = NoView
    /\ seed = kv

NextRace == \E r \in Req : Step(r, EnvRace)

SpecRace == InitRace /\ [][NextRace]_vars

\* Requests that interleave while any call may fail.
EnvFaulty ==
    [submissions |-> MaxFaulty, blank |-> FALSE, faulty |-> TRUE,
     classifier |-> PlainClassifier, merge |-> PlainMerge]

NextFaulty == \E r \in Req : Step(r, EnvFaulty)

SpecFaulty == Init /\ [][NextFaulty]_vars

(* ----------------------------- query views ------------------------------ *)

\* Lines 23 and 43: the most keys one list call returns.
ListLimit == 1000

LoginCategory == <<"login">>

\* A category name made of a letter and a number of five digits.
NumberedCategory(i) == <<"x">> \o NatToString(10000 + i)

\* One more numbered category than a list call returns.
ManyCategories == [i \in 1..(ListLimit + 1) |-> NumberedCategory(i)]

\* The category names of the model in the order in which list enumerates
\* their keys: by name.
CategoryOrder == <<AiCategory, LoginCategory, DefaultCategory>> \o ManyCategories

\* k.name.startsWith(prefix) ? name.slice(prefix.length) : name
CategoryOf(name) == name[2]

\* Lines 23-24 and 43-44: the keys under the prefix, at most ListLimit of them.
ListKeys(store) ==
    LET all == SelectSeq(CategoryOrder, LAMBDA c : kvKey(c) \in DOMAIN store)
        n == IF Len(all) > ListLimit THEN ListLimit ELSE Len(all)
    IN  [i \in 1..n |-> kvKey(all[i])]

\* Lines 54-58: the examples of an entry: the parsed value of the examples
\* key (a number keeps its digits), or [] for an absent, empty or unparsable one.
ParsedExamples(raw) ==
    IF raw = Null \/ raw = << >> THEN [kind |-> "array", items |-> << >>]
    ELSE LET parsed == JsonParse(raw)
         IN  IF ~parsed.ok THEN [kind |-> "array", items |-> << >>]
             ELSE IF parsed.kind = "number" THEN [kind |-> "number", items |-> raw]
             ELSE [kind |-> parsed.kind, items |-> parsed.items]

\* Line 65: (it.examples || []).join(' | ') works on an array and on a falsy
\* value (null, 0), and throws a TypeError on any other value.
Renders(examples) ==
    \/ examples.kind \in {"array", "null"}
    \/ examples.kind = "number" /\ DigitsValue(examples.items) = 0

\* The entries with a given occurrences, in the order they have in items.
WithOccurrences(items, n) == SelectSeq(items, LAMBDA it : it.occurrences = n)

RECURSIVE Descending(_, _)
Descending(items, values) ==
    IF values = {} THEN << >>
    ELSE LET top == CHOOSE v \in values : \A w \in values : w <= v
         IN  WithOccurrences(items, top) \o Descending(items, values \ {top})

\* Mutant: the comparator is a.occurrences - b.occurrences.
SortDesc_Ascending(items) ==
    LET RECURSIVE Ascending(_)
        Ascending(values) ==
            IF values = {} THEN << >>
            ELSE LET low == CHOOSE v \in values : \A w \in values : v <= w
                 IN  WithOccurrences(items, low) \o Ascending(values \ {low})
    IN  Ascending({items[i].occurrences : i \in 1..Len(items)})

\* Lines 33 and 61: items.sort((a, b) => b.occurrences - a.occurrences), a
\* stable sort: larger occurrences first, equal ones in their order in items.
SortDesc(items) == Descending(items, {items[i].occurrences : i \in 1..Len(items)})

\* Lines 35-37 and 70-72: the catch of a view answers 500 with no listing.
ViewFailed(op, target) ==
    [view EXCEPT !.ops = Append(@, Op(op, target, FALSE, NoAnswer)),
                 !.pc = "done", !.status = 500, !.body = << >>]

ViewUntouched == UNCHANGED <<req, kv, db, nsub, classified, filed, overlapped, seed>>

\* Lines 20 and 40, 62: a request arrives on /stats or on /insights, the
\* latter asking for JSON or for HTML.
ViewStart(e) ==
    /\ view.pc \in {"idle", "done"}
    /\ \E path \in {"/stats", "/insights"}, wantsHtml \in BOOLEAN :
          /\ path = "/stats" => ~wantsHtml
          /\ view' = [NoView EXCEPT !.pc = "list", !.path = path,
                                    !.wantsHtml = wantsHtml]
    /\ ViewUntouched

\* Lines 22-25 and 42-45: list the keys under the count prefix.
ViewList(e) ==
    /\ view.pc = "list"
    /\ \E ok \in Outcomes(e) :
          view' = IF ok
                  THEN [view EXCEPT
                          !.ops = Append(@, Op("list", CountPrefix, TRUE, NoAnswer)),
                          !.keys = ListKeys(kv),
                          !.pc = IF ListKeys(kv) = << >> THEN "respond" ELSE "count"]
                  ELSE ViewFailed("list", CountPrefix)
    /\ ViewUntouched

\* Mutant: a failed get of a count is read as 0 and the scan goes on.
ViewCount_DefaultsOnFailure(e) ==
    /\ view.pc = "count"
    /\ \E ok \in Outcomes(e) :
          LET name == Head(view.keys)
              entry == [category |-> CategoryOf(name),
                        occurrences |-> IF ok THEN ReadCount(KvGet(kv, name)) ELSE 0]
          IN  view' = IF view.path = "/stats"
                      THEN [view EXCEPT
                              !.ops = Append(@, Op("get", CountPrefix, ok, NoAnswer)),
                              !.items = Append(@, entry),
                              !.keys = Tail(@),
                              !.pc = IF Tail(view.keys) = << >> THEN "respond"
                                     ELSE "count"]
                      ELSE [view EXCEPT
                              !.ops = Append(@, Op("get", CountPrefix, ok, NoAnswer)),
                              !.item = entry,
                              !.pc = "summary"]
    /\ ViewUntouched

\* Lines 26-32 and 46-50: read the count of the next key; /stats has its
\* entry, /insights goes on to the summary.
ViewCount(e) ==
    /\ view.pc = "count"
    /\ \E ok \in Outcomes(e) :
          LET name == Head(view.keys)
              entry == [category |-> CategoryOf(name),
                        occurrences |-> ReadCount(KvGet(kv, name))]
          IN  view' = IF ~ok THEN ViewFailed("get", CountPrefix)
                      ELSE IF view.path = "/stats"
                      THEN [view EXCEPT
                              !.ops = Append(@, Op("get", CountPrefix, TRUE, NoAnswer)),
                              !.items = Append(@, entry),
                              !.keys = Tail(@),
                              !.pc = IF Tail(view.keys) = << >> THEN "respond"
                                     ELSE "count"]
                      ELSE [view EXCEPT
                              !.ops = Append(@, Op("get", CountPrefix, TRUE, NoAnswer)),
                              !.item = entry,
                              !.pc = "summary"]
    /\ ViewUntouched

\* Lines 51-53: read the summary of the category, null if absent.
ViewSummary(e) ==
    /\ view.pc = "summary"
    /\ \E ok \in Outcomes(e) :
          view' = IF ~ok THEN ViewFailed("get", SumPrefix)
                  ELSE [view EXCEPT
                          !.ops = Append(@, Op("get", SumPrefix, TRUE, NoAnswer)),
                          !.item = [category |-> view.item.category,
                                    occurrences |-> view.item.occurrences,
                                    category_summary |->
                                        KvGet(kv, sumKey(view.item.category))],
                          !.pc = "examples"]
    /\ ViewUntouched

\* Mutant: the examples of an entry are left empty.
ViewExamples_LeftEmpty(e) ==
    /\ view.pc = "examples"
    /\ \E ok \in Outcomes(e) :
          view' = IF ~ok THEN ViewFailed("get", ExPrefix)
                  ELSE [view EXCEPT
                          !.ops = Append(@, Op("get", ExPrefix, TRUE, NoAnswer)),
                          !.items = Append(@,
                              [category |-> view.item.category,
                               occurrences |-> view.item.occurrences,
                               category_summary |-> view.item.category_summary,
                               examples |-> ParsedExamples(Null)]),
                          !.item = << >>,
                          !.keys = Tail(@),
                          !.pc = IF Tail(view.keys) = << >> THEN "respond"
                                 ELSE "count"]
    /\ ViewUntouched

\* Lines 54-60: read and parse the examples of the category; the entry is
\* complete.
ViewExamples(e) ==
    /\ view.pc = "examples"
    /\ \E ok \in Outcomes(e) :
          view' = IF ~ok THEN ViewFailed("get", ExPrefix)
                  ELSE [view EXCEPT
                          !.ops = Append(@, Op("get", ExPrefix, TRUE, NoAnswer)),
                          !.items = Append(@,
                              [category |-> view.item.category,
                               occurrences |-> view.item.occurrences,
                               category_summary |-> view.item.category_summary,
                               examples |->
                                   ParsedExamples(KvGet(kv, exKey(view.item.category)))]),
                          !.item = << >>,
                          !.keys = Tail(@),
                          !.pc = IF Tail(view.keys) = << >> THEN "respond"
                                 ELSE "count"]
    /\ ViewUntouched

\* Lines 33-34 and 61-72: sort the entries and answer with them; the HTML
\* rendering of /insights throws on an entry whose examples cannot be joined,
\* and the catch answers 500.
ViewRespond(e) ==
    /\ view.pc = "respond"
    /\ LET sorted == SortDesc(view.items)
           thrown == /\ view.wantsHtml
                     /\ \E i \in 1..Len(sorted) : ~Renders(sorted[i].examples)
       IN  view' = [view EXCEPT !.items = sorted,
                                !.status = IF thrown THEN 500 ELSE 200,
                                !.body = IF thrown THEN << >> ELSE sorted,
                                !.pc = "done"]
    /\ ViewUntouched

ViewStep(e) ==
    \/ ViewStart(e)
    \/ ViewList(e)
    \/ ViewCount(e)
    \/ ViewSummary(e)
    \/ ViewExamples(e)
    \/ ViewRespond(e)

\* Values found under the count key of a listed category.
ListedCounts == { <<"1">>, <<"3">>, <<"7">>, <<"x">> }

\* Values found under the examples key of a listed category.
ListedExamples == { <<"[", "a", "b", "]">>, <<"[", "a">>, <<"7">>, <<"null">> }

\* Stores of up to three categories: any count under each count key, and for
\* one of them any examples, together with a summary.
ListedStores ==
    { Stored(Stored(Stored(Stored(Stored(<< >>,
          kvKey(AiCategory), cb), kvKey(LoginCategory), cl), kvKey(DefaultCategory), cu),
          exKey(LoginCategory), ex),
          sumKey(LoginCategory), IF ex = Null THEN Null ELSE <<"old">>) :
        cb \in ListedCounts \cup {Null}, cl \in ListedCounts \cup {Null},
        cu \in ListedCounts \cup {Null}, ex \in ListedExamples \cup {Null} }

\* A store with one more category than a list call returns: their counts go
\* 1, 2, 3 in turn, and the category that comes last by name has the largest.
ManyStore ==
    [k \in {kvKey(ManyCategories[i]) : i \in 1..(ListLimit + 1)} |->
        LET i == DigitsValue(Tail(CategoryOf(k))) - 10000
        IN  IF i > ListLimit THEN <<"9">> ELSE StringOf((i % 3) + 1)]

\* The bindings as the views meet them: any call may fail.
EnvViews ==
    [submissions |-> MaxViewed, blank |-> FALSE, faulty |-> TRUE,
     classifier |-> PlainClassifier, merge |-> PlainMerge]

\* The views alone, on a store that holds values.
InitListing ==
    /\ req = [r \in Req |-> Fresh]
    /\ kv \in ListedStores \cup {ManyStore}
    /\ db = << >>
    /\ nsub = 0
    /\ classified = [c \in Categories |-> 0]
    /\ filed = [c \in Categories |-> {}]
    /\ overlapped = FALSE
    /\ view = NoView
    /\ seed = kv

NextListing == ViewStep(EnvViews)

SpecListing == InitListing /\ [][NextListing]_vars

\* Stores a view is asked about after a submission: the empty one, one that
\* knows another category, one that knows the category the classifier names.
ViewedStores ==
    { << >>,
      Stored(<< >>, kvKey(LoginCategory), <<"7">>),
      Stored(Stored(Stored(<< >>, kvKey(AiCategory), <<"3">>),
                    sumKey(AiCategory), <<"old">>),
             exKey(AiCategory), <<"[", "a", "]">>) }

InitViews ==
    /\ req = [r \in Req |-> Fresh]
    /\ kv \in ViewedStores
    /\ db = << >>
    /\ nsub = 0
    /\ classified = [c \in Categories |-> 0]
    /\ filed = [c \in Categories |-> {}]
    /\ overlapped = FALSE
    /\ view = NoView
    /\ seed = kv

\* Requests one at a time: an ingest runs while no view is scanning, and a
\* view runs while no ingest is in flight.
NextViews ==
    \/ view.pc \in {"idle", "done"} /\ Step(1, EnvViews)
    \/ req[1].pc \in {"idle", "done"} /\ ViewStep(EnvViews)

SpecViews == InitViews /\ [][NextViews]_vars

(* ------------------------------ readings -------------------------------- *)

\* The occurrences a view reads for a category.
Occurrences(store, c) == ReadCount(KvGet(store, kvKey(c)))

\* The examples a view reads for a category (lines 54-58).
Examples(store, c) ==
    LET raw == KvGet(store, exKey(c))
        parsed == JsonParse(raw)
    IN  IF raw = Null \/ raw = << >> \/ ~parsed.ok THEN << >> ELSE parsed.items

InFlight(r) == req[r].pc \notin {"idle", "done"}

Quiescent == \A r \in Req : ~InFlight(r)

Max(a, b) == IF a > b THEN a ELSE b

(* ------------------------------- claims --------------------------------- *)

\* C1: from an empty store, whatever requests ran and however their storage
\* operations interleaved, every stored example array is a well-formed array
\* of at most 3 entries.
C1_ExamplesAtMostThree ==
    \A k \in DOMAIN kv :
        k[1] = ExPrefix =>
            /\ JsonParse(kv[k]).ok
            /\ JsonParse(kv[k]).kind = "array"
            /\ Len(JsonParse(kv[k]).items) <= 3

\* C1 witness: four requests went into one category, all have finished, and
\* its array is full.
C1_Witness ==
    /\ Quiescent
    /\ classified[AiCategory] = 4
    /\ Len(Examples(kv, AiCategory)) = 3

\* C2: when no request is in flight and N >= 1 requests were classified into
\* a category, its stored occurrences is at least 1 and at most N.
C2_FinalCountInRange ==
    \A c \in Categories :
        (Quiescent /\ classified[c] >= 1) =>
            /\ Occurrences(kv, c) >= 1
            /\ Occurrences(kv, c) <= classified[c]

\* C2 witness: three requests into one category have finished and updates
\* were lost: the count is below 3.
C2_Witness ==
    /\ Quiescent
    /\ classified[AiCategory] = 3
    /\ Occurrences(kv, AiCategory) < 3

\* C3 as claimed: with requests interleaving and no storage operation
\* failing, the occurrences of a category is never negative and never read
\* smaller than before.
C3_NeverDecreasesInterleaved ==
    [][\A c \in Categories :
          /\ Occurrences(kv', c) >= 0
          /\ Occurrences(kv', c) >= Occurrences(kv, c)]_vars

\* C3 amended: with no storage operation failing, the occurrences of a
\* category is never negative, and as long as no two requests have been in
\* flight at the same time it is never read smaller than before.
C3_NeverDecreasesSerial ==
    [][\A c \in Categories :
          /\ Occurrences(kv', c) >= 0
          /\ ~overlapped' => Occurrences(kv', c) >= Occurrences(kv, c)]_vars

\* C3 witness: a category counted three requests that ran one after another.
C3_Witness ==
    /\ Quiescent
    /\ ~overlapped
    /\ Occurrences(kv, AiCategory) = 3

(* --------------------------- request histories ------------------------- *)

\* The calls request r has made on a binding so far.
Calls(r, op, target) ==
    {i \in 1..Len(req[r].ops) :
        req[r].ops[i].op = op /\ req[r].ops[i].target = target}

Called(r, op, target) == Calls(r, op, target) # {}

FailedCall(r, op, target) ==
    \E i \in Calls(r, op, target) : ~req[r].ops[i].ok

Persisted(r) == \E i \in Calls(r, "db.insert", "feedback") : req[r].ops[i].ok

Answered(r) == req[r].pc = "done" /\ req[r].status # 0

\* C4: a request whose raw submission was persisted never gets an error
\* status, and once answered its status is 200 (success: true), whichever of
\* the classifier call, the merge call and the key-value gets and puts failed.
C4_SuccessOncePersisted ==
    \A r \in Req :
        Persisted(r) =>
            /\ req[r].status \in {0, 200}
            /\ req[r].pc = "done" => req[r].status = 200

\* C4 witness: a request was answered 200 although its classifier call, its
\* count put, its merge call and its examples get all failed.
C4_Witness ==
    \E r \in Req :
        /\ Answered(r) /\ req[r].status = 200
        /\ FailedCall(r, "ai.run", "classify")
        /\ FailedCall(r, "put", CountPrefix)
        /\ FailedCall(r, "ai.run", "merge")
        /\ FailedCall(r, "get", ExPrefix)

\* C5 as claimed: when the get of the count key failed, the request is
\* answered 200 with occurrences 0 and has attempted the put of the count key.
C5_ReadFailureStillWrites ==
    \A r \in Req :
        (Answered(r) /\ FailedCall(r, "get", CountPrefix)) =>
            /\ req[r].status = 200
            /\ req[r].occurrences = 0
            /\ Called(r, "put", CountPrefix)

\* C5 amended: when the get of the count key failed, the request is answered
\* 200 with occurrences 0 and has made no put of the count key.
C5_ReadFailureSkipsWrite ==
    \A r \in Req :
        FailedCall(r, "get", CountPrefix) =>
            /\ req[r].status \in {0, 200}
            /\ Answered(r) => req[r].status = 200
            /\ req[r].occurrences = 0
            /\ ~Called(r, "put", CountPrefix)

\* C5 witness: a request whose count get failed has been answered, and it
\* went on to write the two other keys.
C5_Witness ==
    \E r \in Req :
        /\ Answered(r)
        /\ FailedCall(r, "get", CountPrefix)
        /\ Called(r, "put", SumPrefix)
        /\ Called(r, "put", ExPrefix)

\* C6 as claimed: the count step writes and returns max(p, 0) + 1, where p is
\* the integer parsed from the stored value, 0 for a missing or non-numeric one.
C6_CountIsMaxPlusOne ==
    [][\A r \in Req :
          (req[r].pc = "countPut" /\ req'[r].pc = "sumGet") =>
              LET p == ReadCount(KvGet(kv, kvKey(req[r].category)))
              IN  /\ req'[r].occurrences = Max(p, 0) + 1
                  /\ KvGet(kv', kvKey(req[r].category)) = StringOf(Max(p, 0) + 1)]_vars

\* The answer's "response" as the classification step sees it.
RawOf(a) == IF a.throws \/ a.response = Null THEN << >> ELSE a.response

NoBraces(a) == indexOf(RawOf(a), "{") = -1 \/ lastIndexOf(RawOf(a), "}") = -1

Extracted(a) ==
    JsonParse(slice(RawOf(a), indexOf(RawOf(a), "{"), lastIndexOf(RawOf(a), "}") + 1))

ClassifierKeys == {"sentiment", "category", "summary"}

LacksKey(a, key) == Field(Extracted(a).items, key) = Undefined

\* The classification failures the claim names.
Unusable(a) == a.throws \/ NoBraces(a) \/ ~Extracted(a).ok

ClassifierFailed(a) == Unusable(a) \/ \E key \in ClassifierKeys : LacksKey(a, key)

\* The classifier's answer to request r, once it has answered.
ClassifierAnswer(r) ==
    req[r].ops[CHOOSE i \in Calls(r, "ai.run", "classify") : TRUE].answer

IsDefault(r) ==
    /\ req[r].sentiment = <<"unknown">>
    /\ req[r].category = <<"unknown">>
    /\ req[r].summary = <<"N/A">>

\* C7 as claimed: after any classification failure, a missing key included,
\* the three fields are exactly the defaults.
C7_AnyFailureGivesDefaults ==
    \A r \in Req :
        (Called(r, "ai.run", "classify") /\ ClassifierFailed(ClassifierAnswer(r))) =>
            IsDefault(r)

\* C7 amended: when the call throws, the response has no braces or the
\* extracted JSON is malformed, the three fields are exactly the defaults;
\* when the JSON parses, a field is its default exactly if its key is missing;
\* and a key of the store belongs to a category some request was classified
\* into, so requests whose answers give no category all update "unknown".
C7_FailureGivesDefaultsPerKey ==
    /\ \A r \in Req :
          Called(r, "ai.run", "classify") =>
              LET a == ClassifierAnswer(r)
              IN  /\ Unusable(a) => IsDefault(r)
                  /\ ~Unusable(a) =>
                        /\ LacksKey(a, "sentiment") <=> req[r].sentiment = <<"unknown">>
                        /\ LacksKey(a, "category") <=> req[r].category = <<"unknown">>
                        /\ LacksKey(a, "summary") <=> req[r].summary = <<"N/A">>
    /\ \A k \in DOMAIN kv : classified[k[2]] >= 1

\* C7 witness: two requests whose classifier answers were unusable have
\* finished, and both were counted under "unknown".
C7_Witness ==
    /\ \E r \in Req :
          /\ Answered(r)
          /\ Called(r, "ai.run", "classify")
          /\ ~ClassifierAnswer(r).throws
          /\ ~NoBraces(ClassifierAnswer(r))
          /\ ~Extracted(ClassifierAnswer(r)).ok
          /\ IsDefault(r)
    /\ classified[AiCategory] = 0
    /\ Occurrences(kv, DefaultCategory) = 2

\* The merge service's answer to request r, once it has answered.
MergeAnswer(r) == req[r].ops[CHOOSE i \in Calls(r, "ai.run", "merge") : TRUE].answer

\* The merge failures the claim names: the call throws, the response is
\* empty, is no JSON, or is an object without merged_summary.
MergeFailed(a) ==
    \/ a.throws
    \/ /\ a.merged_summary = Undefined
       /\ LET t == IF a.response = Null THEN << >> ELSE trim(a.response)
          IN  \/ t = << >>
              \/ ~JsonParse(t).ok
              \/ Field(JsonParse(t).items, "merged_summary") = Undefined

C9_PersistFailureAborts ==
    \A r \in Req :
        FailedCall(r, "db.insert", "feedback") =>
            /\ req[r].pc = "done"
            /\ req[r].status = 500
            /\ Len(req[r].ops) = 1

\* C9 witness: a request was answered 500 while the store held keys of an
\* earlier request.
C9_Witness ==
    \E r \in Req :
        /\ Answered(r)
        /\ req[r].status = 500
        /\ DOMAIN kv # {}

\* C10: a request without a text is answered 400 at once, has made no call on
\* any binding, and the step that answers it changes neither the raw store nor
\* the key-value store.
C10_BlankTextRejected ==
    [][\A r \in Req :
          (req'[r].pc # "idle" /\ IsBlank(req'[r].text)) =>
              /\ req'[r].pc = "done"
              /\ req'[r].status = 400
              /\ req'[r].ops = << >>
              /\ req'[r] # req[r] => (kv' = kv /\ db' = db)]_vars

\* C10 witness: a request with an empty text was answered 400 while the
\* stores held an earlier submission.
C10_Witness ==
    \E r \in Req :
        /\ Answered(r)
        /\ req[r].text = EmptyText
        /\ req[r].status = 400
        /\ db # << >>
        /\ DOMAIN kv # {}

\* The entries of a sequence, as a set.
Range(seq) == {seq[i] : i \in 1..Len(seq)}

\* C11: when requests have run one after another with no failure and a
\* category that started without examples has received at most 3 texts, its
\* stored example array holds every one of them, once each.
C11_FirstThreeRetained ==
    \A c \in Categories :
        (Quiescent /\ ~overlapped /\ Cardinality(filed[c]) <= ExampleCap) =>
            /\ Range(Examples(kv, c)) = filed[c]
            /\ Len(Examples(kv, c)) = Cardinality(filed[c])

\* C11 witness: three requests ran one after another into one category, and
\* its array holds three texts.
C11_Witness ==
    /\ Quiescent
    /\ ~overlapped
    /\ Cardinality(filed[AiCategory]) = 3
    /\ Len(Examples(kv, AiCategory)) = 3

\* The array stored under the examples key of a category, as the examples
\* step parses it (line 214).
StoredArray(store, c) == JsonParse(KvGet(store, exKey(c)))

\* C12: when the examples step of a request, alone and with no failure, finds
\* an array of exactly 3 entries, the array it stores and returns has 3
\* entries: one slot holds the request's text and the two other slots hold
\* what they held before.
C12_ReplacesExactlyOne ==
    [][\A r \in Req :
          (/\ req[r].pc = "exPut" /\ req'[r].pc = "done"
           /\ StoredArray(kv, req[r].category).kind = "array"
           /\ Len(StoredArray(kv, req[r].category).items) = 3) =>
              LET old == StoredArray(kv, req[r].category).items
                  new == StoredArray(kv', req[r].category).items
              IN  /\ StoredArray(kv', req[r].category).kind = "array"
                  /\ Len(new) = 3
                  /\ req'[r].examples = new
                  /\ \E i \in 1..3 :
                        /\ new[i] = req[r].text
                        /\ \A j \in (1..3) \ {i} : new[j] = old[j]]_vars

\* C12 witness: a request found the array ["a","b","c"] and left the text in
\* the middle slot.
C12_Witness ==
    \E r \in Req :
        /\ Answered(r)
        /\ KvGet(seed, exKey(AiCategory)) = <<"[", "a", "b", "c", "]">>
        /\ KvGet(kv, exKey(AiCategory)) = <<"[", "a", req[r].text, "c", "]">>

(* ------------------------------ view claims ----------------------------- *)

\* Request r was answered 200 and none of its calls failed.
FailureFree(r) ==
    /\ Answered(r)
    /\ req[r].status = 200
    /\ \A i \in 1..Len(req[r].ops) : req[r].ops[i].ok

\* The store held no key of category c at the start.
NewCategory(c) == \A k \in DOMAIN seed : k[2] # c

\* The view answers: the step from sorting to the response.
Responds == view.pc = "respond" /\ view'.pc = "done"

CountKeys(store) == {k \in DOMAIN store : k[1] = CountPrefix}

\* The view is answered and none of its storage calls failed.
ScanCompleted ==
    /\ view.pc = "done"
    /\ \A i \in 1..Len(view.ops) : view.ops[i].ok

\* Occurrences never increases from one entry to the next.
SortedDescending(body) ==
    \A i \in 1..(Len(body) - 1) : body[i].occurrences >= body[i + 1].occurrences

\* Every entry is a stored count key with the count a view reads for it, and
\* no key has two entries.
EntriesOfKeys(body, store) ==
    /\ \A i \in 1..Len(body) :
          /\ kvKey(body[i].category) \in CountKeys(store)
          /\ body[i].occurrences = Occurrences(store, body[i].category)
    /\ \A i, j \in 1..Len(body) : body[i].category = body[j].category => i = j

ScanFailed(v) == \E i \in 1..Len(v.ops) : ~v.ops[i].ok

\* C15: once the list or a get of a /stats or /insights scan has failed, the
\* view is answered 500 with no listing, and no step of a view changes the
\* key-value store or the raw store.
C15_ScanFailureAnswers500 ==
    [][/\ view' # view => (kv' = kv /\ db' = db)
       /\ ScanFailed(view') =>
             /\ view'.pc = "done"
             /\ view'.status = 500
             /\ view'.body = << >>
             /\ ~view'.ops[Len(view'.ops)].ok]_vars

\* C15 witness: an /insights scan failed on a get after it had collected the
\* entry of another category, and was answered 500.
C15_Witness ==
    /\ view.pc = "done"
    /\ view.path = "/insights"
    /\ ScanFailed(view)
    /\ view.status = 500
    /\ Len(view.items) = 1
    /\ Len(view.keys) = 1

(* --------------------------- aggregation claims ------------------------- *)

\* The place of a key-value call in the aggregation: count, summary, examples.
StepOf(target) ==
    IF target = CountPrefix THEN 1 ELSE IF target = SumPrefix THEN 2 ELSE 3

IsKvCall(o) == o.op \in {"get", "put"}

\* C16: in the calls of one ingest request, those on the count key come
\* before those on the summary key, which come before those on the examples
\* key; an answered request that was persisted has run all three steps,
\* whichever call failed; and a step of the request changes the store only by
\* a successful put, and then only at the key of that put, so a failed call
\* leaves the earlier writes in place.
C16_OrderedStepsNoRollback ==
    [][\A r \in Req :
          LET ops == req'[r].ops
              n == Len(ops)
          IN  /\ \A i, j \in 1..n :
                    (i < j /\ IsKvCall(ops[i]) /\ IsKvCall(ops[j])) =>
                        StepOf(ops[i].target) <= StepOf(ops[j].target)
              /\ (req'[r].pc = "done" /\ n > 1) =>
                    \A target \in {CountPrefix, SumPrefix, ExPrefix} :
                        \E i \in 1..n : ops[i].op = "get" /\ ops[i].target = target
              /\ (n = Len(req[r].ops) + 1) =>
                    IF ops[n].op = "put" /\ ops[n].ok
                    THEN /\ DOMAIN kv' = DOMAIN kv \cup {<<ops[n].target, req[r].category>>}
                         /\ \A k \in DOMAIN kv :
                               k # <<ops[n].target, req[r].category>> => kv'[k] = kv[k]
                    ELSE kv' = kv]_vars

\* C16 witness: a request whose get of the summary failed has been answered,
\* after writing the count before that failure and the examples after it.
C16_Witness ==
    \E r \in Req :
        /\ Answered(r)
        /\ FailedCall(r, "get", SumPrefix)
        /\ \E i \in Calls(r, "put", CountPrefix) : req[r].ops[i].ok
        /\ \E i \in Calls(r, "put", ExPrefix) : req[r].ops[i].ok
        /\ KvGet(kv, kvKey(req[r].category)) = StringOf(req[r].occurrences)
        /\ KvGet(kv, exKey(req[r].category)) = JsonStringify(req[r].examples)

\* The count the store held for a category at the start, as a view reads it.
PriorCount(c) == ReadCount(KvGet(seed, kvKey(c)))

\* C17: when two failure-free requests were classified into one category
\* that held the count p and both have finished, however their calls
\* interleaved, the stored occurrences is p + 1 or p + 2.
C17_TwoRequestsCountOneOrTwo ==
    \A c \in Categories :
        (Quiescent /\ classified[c] = 2) =>
            Occurrences(kv, c) \in {PriorCount(c) + 1, PriorCount(c) + 2}

\* C17 witness: two requests into one category that held a count p >= 1
\* both read p and both wrote p + 1: the stored occurrences is p + 1.
C17_Witness ==
    /\ Quiescent
    /\ classified[AiCategory] = 2
    /\ PriorCount(AiCategory) >= 1
    /\ \A r \in Req : req[r].category = AiCategory
                      /\ req[r].occurrences = PriorCount(AiCategory) + 1
    /\ Occurrences(kv, AiCategory) = PriorCount(AiCategory) + 1

\* C18 as claimed: when the get or the put of the count key failed, the
\* occurrences of the request's response is 0.
C18_CountFailureReportsZero ==
    \A r \in Req :
        (/\ Answered(r)
         /\ (FailedCall(r, "get", CountPrefix) \/ FailedCall(r, "put", CountPrefix))) =>
            req[r].occurrences = 0

Min(a, b) == IF a < b THEN a ELSE b

\* C19: from an empty store, with no failing storage call, whenever the
\* requests so far have run one at a time and all have finished, every
\* category with a count key has min(occurrences, 3) stored examples.
C19_ExamplesMatchCount ==
    (Quiescent /\ ~overlapped) =>
        \A c \in Categories :
            kvKey(c) \in DOMAIN kv =>
                Len(Examples(kv, c)) = Min(Occurrences(kv, c), 3)

\* C19 witness: four requests ran one at a time into one category: it has
\* occurrences 4 and 3 examples.
C19_Witness ==
    /\ Quiescent
    /\ ~overlapped
    /\ Occurrences(kv, AiCategory) = 4
    /\ Len(Examples(kv, AiCategory)) = 3

\* C20: from an empty store, however the requests interleave and whichever
\* calls fail, every stored example array is well formed and each of its
\* entries is the text of a request that was classified into the category of
\* that array.
C20_ExamplesAreClassifiedTexts ==
    \A k \in DOMAIN kv :
        k[1] = ExPrefix =>
            /\ StoredArray(kv, k[2]).kind = "array"
            /\ k[2] \in Categories
            /\ Range(StoredArray(kv, k[2]).items) \subseteq filed[k[2]]

\* C20 witness: two requests that were in flight together went into
\* different categories, a storage call of one of them failed, and each
\* category holds the text of its own request.
C20_Witness ==
    /\ Quiescent
    /\ overlapped
    /\ \E r \in Req : FailedCall(r, "put", CountPrefix)
    /\ \E t, u \in Texts :
          /\ t # u
          /\ Examples(kv, AiCategory) = <<t>>
          /\ Examples(kv, DefaultCategory) = <<u>>

====
